---- MODULE Spec2Model ----
(***************************************************************************)
(* Verification model of two weather integrations:                         *)
(*   - homeassistant/components/meteoclimatic/__init__.py: the polling    *)
(*     adapter (config-entry setup, update function, unload);              *)
(*   - homeassistant/components/tomorrowio/sensor.py: the sensor           *)
(*     descriptors, their validation, and value rendering.                 *)
(* Numbers are fixed-point integers counted in thousandths, so that        *)
(* round(x, 2) is an observable operation.                                 *)
(***************************************************************************)
EXTENDS Integers, Sequences, FiniteSets, TLC

VARIABLES
    \* ---- meteoclimatic polling adapter ----
    setup_pc,            \* position of async_setup_entry
    setup_result,        \* what async_setup_entry produced
    hass_data,           \* hass.data[DOMAIN]: entry ids holding a coordinator
    platforms_setup,     \* platforms forwarded (entities listen to the coordinator)
    data,                \* coordinator.data, the shared snapshot
    last_update_success, \* coordinator.last_update_success
    timer_armed,         \* the coordinator's refresh timer is scheduled
    update_pc,           \* position of the running async_update_data coroutine
    future,              \* result slot of the executor job being awaited
    in_flight,           \* weather_at_station calls running on the executor
    update_result,       \* what the last async_update_data call produced
    ticks,               \* timer ticks fired so far
    \* ---- tomorrowio sensor: one descriptor under construction ----
    units,               \* hass.config.units
    description,         \* outcome of the last descriptor construction
    entity,              \* sensor entity bound to the constructed descriptor
    state,               \* raw value the entity's _state returns
    rendered,            \* completed native_value call of the entity
    \* ---- tomorrowio sensor: the entities of SENSOR_TYPES ----
    table_units,         \* hass.config.units of the instance holding the table
    entities,            \* entities created by sensor.async_setup_entry
    snapshot,            \* current-conditions mapping held by the coordinator
    table_rendered       \* completed native_value call of one table entity

poll_vars == <<setup_pc, setup_result, hass_data, platforms_setup, data,
               last_update_success, timer_armed, update_pc, future, in_flight,
               update_result, ticks>>
desc_vars == <<units, description, entity, state, rendered>>
table_vars == <<table_units, entities, snapshot, table_rendered>>
vars == <<poll_vars, desc_vars, table_vars>>

\* Python's None, as a tagged value comparable with every other model value.
None == [tag |-> "None"]

(***************************************************************************)
(* Bounds of the model.                                                    *)
(***************************************************************************)
\* Timer ticks explored per behaviour.
MaxTicks == 3
\* Largest temperature reading a station reports, in whole degrees.
MaxTemp == 2

(***************************************************************************)
(*                      METEOCLIMATIC POLLING ADAPTER                      *)
(***************************************************************************)

\* The config entry being set up (entry.entry_id).
entry_id == "entry1"

\* Objects weather_at_station can return: an observation with attributes.
Observations ==
    { [cls |-> "Observation", attrs |-> [station |-> "ESCAT08", temp |-> t]]
        : t \in 0..MaxTemp }

\* Outcomes of the blocking provider call on the executor.
JobOutcomes ==
    { [kind |-> "return", value |-> o] : o \in Observations }
        \cup { [kind |-> "raise", exc |-> "MeteoclimaticError"] }

Pending == [kind |-> "pending"]

\* data.__dict__: the attribute mapping of the returned object.
ObjDict(o) == [tag |-> "dict", items |-> o.attrs]

\* Variant of async_update_data that swallows the provider error and
\* returns an empty mapping.
async_update_data_swallow(res) ==
    IF res.kind = "return"
    THEN [kind |-> "return", value |-> ObjDict(res.value)]
    ELSE [kind |-> "return", value |-> [tag |-> "dict", items |-> <<>>]]

\* async_update_data, from the point its awaited job has a result: the record
\* as a plain mapping, or UpdateFailed raised from the provider error.
async_update_data(res) ==
    IF res.kind = "return"
    THEN [kind |-> "return", value |-> ObjDict(res.value)]
    ELSE [kind |-> "raise", exc |-> "UpdateFailed", cause |-> res.exc]

\* async_update_data up to its await: one job goes to the executor.
async_update_data_call ==
    /\ in_flight' = in_flight + 1
    /\ future' = Pending
    /\ update_pc' = "awaiting"

\* async_setup_entry, lines 18-39: build the client and the coordinator and
\* await the first refresh.
SetupStart ==
    /\ setup_pc = "init"
    /\ setup_pc' = "first_refresh"
    /\ async_update_data_call
    /\ UNCHANGED <<setup_result, hass_data, platforms_setup, data,
                   last_update_success, timer_armed, update_result, ticks>>

\* The executor thread finishes weather_at_station, returning or raising.
ExecutorFinish ==
    /\ in_flight > 0
    /\ in_flight' = in_flight - 1
    /\ \E out \in JobOutcomes :
          future' = IF update_pc = "awaiting" /\ future = Pending THEN out ELSE future
    /\ UNCHANGED <<setup_pc, setup_result, hass_data, platforms_setup, data,
                   last_update_success, timer_armed, update_pc, update_result, ticks>>

\* The coordinator's handling of the update method's outcome: a returned
\* mapping replaces the snapshot; UpdateFailed leaves the snapshot in place
\* and marks the last update failed.
CoordinatorStore(res) ==
    /\ data' = IF res.kind = "return" THEN res.value ELSE data
    /\ last_update_success' = (res.kind = "return")

\* The timer callback: the armed timer fires and starts one refresh cycle.
Tick ==
    /\ timer_armed
    /\ ticks < MaxTicks
    /\ ticks' = ticks + 1
    /\ timer_armed' = FALSE
    /\ async_update_data_call
    /\ UNCHANGED <<setup_pc, setup_result, hass_data, platforms_setup, data,
                   last_update_success, update_result>>

\* Variant of UpdateReturn that does not wait for the executor job.
UpdateReturn_NoAwait ==
    /\ update_pc = "awaiting"
    /\ LET res == IF future = Pending
                  THEN [kind |-> "return", value |-> [tag |-> "dict", items |-> <<>>]]
                  ELSE async_update_data(future)
       IN /\ update_result' = res
          /\ CoordinatorStore(res)
          /\ IF setup_pc = "first_refresh"
             THEN /\ setup_pc' = IF res.kind = "return" THEN "store" ELSE "aborted"
                  /\ setup_result' = IF res.kind = "return" THEN setup_result
                                     ELSE "ConfigEntryNotReady"
                  /\ timer_armed' = timer_armed
             ELSE /\ timer_armed' = platforms_setup
                  /\ UNCHANGED <<setup_pc, setup_result>>
    /\ update_pc' = "idle"
    /\ future' = Pending
    /\ UNCHANGED <<hass_data, platforms_setup, in_flight, ticks>>

\* The awaited job is done: async_update_data resumes and returns or raises,
\* and the coordinator finishes the cycle.  On the first refresh a failure
\* aborts async_setup_entry at line 39; on a timer cycle the timer is armed
\* again if entities still listen.
UpdateReturn ==
    /\ update_pc = "awaiting"
    /\ future # Pending
    /\ LET res == async_update_data(future)
       IN /\ update_result' = res
          /\ CoordinatorStore(res)
          /\ IF setup_pc = "first_refresh"
             THEN /\ setup_pc' = IF res.kind = "return" THEN "store" ELSE "aborted"
                  /\ setup_result' = IF res.kind = "return" THEN setup_result
                                     ELSE "ConfigEntryNotReady"
                  /\ timer_armed' = timer_armed
             ELSE /\ timer_armed' = platforms_setup
                  /\ UNCHANGED <<setup_pc, setup_result>>
    /\ update_pc' = "idle"
    /\ future' = Pending
    /\ UNCHANGED <<hass_data, platforms_setup, in_flight, ticks>>

\* Variant of SetupStore that does not wait for the first refresh.
SetupStore_Early ==
    /\ setup_pc \in {"first_refresh", "store"}
    /\ hass_data' = hass_data \cup {entry_id}
    /\ setup_pc' = IF setup_pc = "store" THEN "platforms" ELSE setup_pc
    /\ UNCHANGED <<setup_result, platforms_setup, data, last_update_success,
                   timer_armed, update_pc, future, in_flight, update_result, ticks>>

\* async_setup_entry, lines 41-42: store the coordinator under the entry id.
SetupStore ==
    /\ setup_pc = "store"
    /\ hass_data' = hass_data \cup {entry_id}
    /\ setup_pc' = "platforms"
    /\ UNCHANGED <<setup_result, platforms_setup, data, last_update_success,
                   timer_armed, update_pc, future, in_flight, update_result, ticks>>

\* async_setup_entry, line 44: set up the platforms; their entities start
\* listening to the coordinator, which arms its timer.
SetupPlatforms ==
    /\ setup_pc = "platforms"
    /\ platforms_setup' = TRUE
    /\ timer_armed' = TRUE
    /\ setup_pc' = "return"
    /\ UNCHANGED <<setup_result, hass_data, data, last_update_success,
                   update_pc, future, in_flight, update_result, ticks>>

\* async_setup_entry, line 46.
SetupReturn ==
    /\ setup_pc = "return"
    /\ setup_result' = "True"
    /\ setup_pc' = "done"
    /\ UNCHANGED <<hass_data, platforms_setup, data, last_update_success,
                   timer_armed, update_pc, future, in_flight, update_result, ticks>>

\* async_unload_entry: unload the platforms and return the outcome; the
\* entry's coordinator stays in hass.data.  With no listener left the timer
\* is cancelled.
async_unload_entry ==
    /\ setup_pc = "done"
    /\ platforms_setup
    /\ \E unload_ok \in BOOLEAN :
          /\ platforms_setup' = ~unload_ok
          /\ timer_armed' = (timer_armed /\ ~unload_ok)
    /\ UNCHANGED <<setup_pc, setup_result, hass_data, data, last_update_success,
                   update_pc, future, in_flight, update_result, ticks>>

(***************************************************************************)
(*                         TOMORROWIO SENSOR                               *)
(***************************************************************************)

\* A Python str, and a Python number counted in thousandths.
S(x) == [tag |-> "str", s |-> x]
Num(n) == [tag |-> "num", milli |-> n]

\* hass.config.units: the metric system or US_CUSTOMARY_SYSTEM.
US_CUSTOMARY_SYSTEM == "us_customary"
UnitSystems == {"metric", US_CUSTOMARY_SYSTEM}

\* Quotient and remainder of (x * num) by (10 * den), for x counted in
\* thousandths and den > 0; the product is split so that it stays within
\* the integer range.
QuotRem(x, num, den) ==
    LET a == (x \div 10) * num
        rest == 10 * (a % den) + (x % 10) * num
    IN [quot |-> (a \div den) + (rest \div (10 * den)),
        rem |-> rest % (10 * den),
        by |-> 10 * den]

\* Variant of Round2 that cuts the digits off instead of rounding.
Trunc2(x, num, den) == Num(10 * QuotRem(x, num, den).quot)

\* round(x * num / den, 2), for x in thousandths: a whole number of
\* hundredths, a tie going to the even one as Python's round() settles it.
Round2(x, num, den) ==
    LET d == QuotRem(x, num, den)
    IN Num(10 * (IF 2 * d.rem < d.by THEN d.quot
                 ELSE IF 2 * d.rem > d.by THEN d.quot + 1
                 ELSE IF d.quot % 2 = 0 THEN d.quot ELSE d.quot + 1))

\* A float constant num/den used as a conversion factor.
Float(num, den) == [tag |-> "float", num |-> num, den |-> den]

\* convert_ppb_to_ugm3(molecular_weight): the function x -> (x * mw) / 24.45,
\* with the molecular weight given in hundredths.
convert_ppb_to_ugm3(mw100) == [tag |-> "callable", num |-> mw100, den |-> 2445]

\* lambda val: DistanceConverter.convert(val, KILOMETERS, MILES); a mile is
\* 1609.344 m, so the factor is 1000/1609.344 = 15625/25146.
KmToMiles == [tag |-> "callable", num |-> 15625, den |-> 25146]

\* lambda val: SpeedConverter.convert(val, METERS_PER_SECOND, MILES_PER_HOUR):
\* the factor is 3600/1609.344 = 3125/1397.
MsToMph == [tag |-> "callable", num |-> 3125, den |-> 1397]

\* callable(conversion)
callable(conversion) == conversion.tag = "callable"

\* Truth value of an optional conversion: None and a zero number are falsy.
Truthy(conversion) ==
    /\ conversion # None
    /\ (callable(conversion) \/ conversion.num # 0)

\* Variant of handle_conversion that truncates to two decimals.
handle_conversion_trunc(value, conversion) ==
    IF callable(conversion)
    THEN Trunc2(value.milli, conversion.num, conversion.den)
    ELSE Trunc2(value.milli, conversion.num, conversion.den)

\* handle_conversion(value, conversion): call the conversion, or multiply by
\* it, and round to two decimals.
handle_conversion(value, conversion) ==
    IF callable(conversion)
    THEN Round2(value.milli, conversion.num, conversion.den)
    ELSE Round2(value.milli, conversion.num, conversion.den)

\* str.lower() on a name given as its character codes.
Lower(chars) ==
    [i \in DOMAIN chars |->
        IF chars[i] >= 65 /\ chars[i] <= 90 THEN chars[i] + 32 ELSE chars[i]]

\* The enumerations of pytomorrowio.const used as value_map: each member's
\* name (character codes) and value.
PrecipitationType ==
    [tag |-> "enum", cls |-> "PrecipitationType", members |-> <<
        \* NONE
        [name |-> <<78, 79, 78, 69>>,
         value |-> 0],
        \* RAIN
        [name |-> <<82, 65, 73, 78>>,
         value |-> 1],
        \* SNOW
        [name |-> <<83, 78, 79, 87>>,
         value |-> 2],
        \* FREEZING_RAIN
        [name |-> <<70, 82, 69, 69, 90, 73, 78, 71, 95, 82, 65, 73, 78>>,
         value |-> 3],
        \* ICE_PELLETS
        [name |-> <<73, 67, 69, 95, 80, 69, 76, 76, 69, 84, 83>>,
         value |-> 4]
    >>]

PrimaryPollutantType ==
    [tag |-> "enum", cls |-> "PrimaryPollutantType", members |-> <<
        \* PM25
        [name |-> <<80, 77, 50, 53>>,
         value |-> 0],
        \* PM10
        [name |-> <<80, 77, 49, 48>>,
         value |-> 1],
        \* O3
        [name |-> <<79, 51>>,
         value |-> 2],
        \* NO2
        [name |-> <<78, 79, 50>>,
         value |-> 3],
        \* CO
        [name |-> <<67, 79>>,
         value |-> 4],
        \* SO2
        [name |-> <<83, 79, 50>>,
         value |-> 5]
    >>]

HealthConcernType ==
    [tag |-> "enum", cls |-> "HealthConcernType", members |-> <<
        \* GOOD
        [name |-> <<71, 79, 79, 68>>,
         value |-> 0],
        \* MODERATE
        [name |-> <<77, 79, 68, 69, 82, 65, 84, 69>>,
         value |-> 1],
        \* UNHEALTHY_FOR_SENSITIVE_GROUPS
        [name |-> <<85, 78, 72, 69, 65, 76, 84, 72, 89, 95, 70, 79, 82, 95, 83, 69, 78, 83, 73, 84, 73, 86, 69, 95, 71, 82, 79, 85, 80, 83>>,
         value |-> 2],
        \* UNHEALTHY
        [name |-> <<85, 78, 72, 69, 65, 76, 84, 72, 89>>,
         value |-> 3],
        \* VERY_UNHEALTHY
        [name |-> <<86, 69, 82, 89, 95, 85, 78, 72, 69, 65, 76, 84, 72, 89>>,
         value |-> 4],
        \* HAZARDOUS
        [name |-> <<72, 65, 90, 65, 82, 68, 79, 85, 83>>,
         value |-> 5]
    >>]

PollenIndex ==
    [tag |-> "enum", cls |-> "PollenIndex", members |-> <<
        \* NONE
        [name |-> <<78, 79, 78, 69>>,
         value |-> 0],
        \* VERY_LOW
        [name |-> <<86, 69, 82, 89, 95, 76, 79, 87>>,
         value |-> 1],
        \* LOW
        [name |-> <<76, 79, 87>>,
         value |-> 2],
        \* MEDIUM
        [name |-> <<77, 69, 68, 73, 85, 77>>,
         value |-> 3],
        \* HIGH
        [name |-> <<72, 73, 71, 72>>,
         value |-> 4],
        \* VERY_HIGH
        [name |-> <<86, 69, 82, 89, 95, 72, 73, 71, 72>>,
         value |-> 5]
    >>]

UVDescription ==
    [tag |-> "enum", cls |-> "UVDescription", members |-> <<
        \* LOW
        [name |-> <<76, 79, 87>>,
         value |-> 0],
        \* MODERATE
        [name |-> <<77, 79, 68, 69, 82, 65, 84, 69>>,
         value |-> 1],
        \* HIGH
        [name |-> <<72, 73, 71, 72>>,
         value |-> 2],
        \* VERY_HIGH
        [name |-> <<86, 69, 82, 89, 95, 72, 73, 71, 72>>,
         value |-> 3],
        \* EXTREME
        [name |-> <<69, 88, 84, 82, 69, 77, 69>>,
         value |-> 4]
    >>]

\* value_map(state): the member whose value equals state, if any.
EnumMembers(value_map, st) ==
    { i \in DOMAIN value_map.members :
          st.tag = "num" /\ st.milli = 1000 * value_map.members[i].value }

\* Field defaults of TomorrowioSensorEntityDescription.
Defaults ==
    [key |-> "", attribute |-> "", name |-> "",
     native_unit_of_measurement |-> None, device_class |-> None,
     options |-> None, unit_imperial |-> None, unit_metric |-> None,
     multiplication_factor |-> None, imperial_conversion |-> None,
     value_map |-> None]

Raise(exc) == [kind |-> "raise", exc |-> exc]
Return(v) == [kind |-> "return", value |-> v]

\* Variant of __post_init__ that tests only one direction of the unit check.
post_init_one_direction(self) ==
    IF self.unit_imperial = None /\ self.unit_metric # None
    THEN Raise("ValueError")
    ELSE IF self.value_map # None
    THEN Return([self EXCEPT
            !.device_class = S("SensorDeviceClass.ENUM"),
            !.options = [i \in DOMAIN self.value_map.members |->
                            Lower(self.value_map.members[i].name)]])
    ELSE Return(self)

\* TomorrowioSensorEntityDescription.__post_init__: reject exactly one unit
\* given; an enum decoder fixes the device class and the options.
post_init(self) ==
    IF \/ (self.unit_imperial = None /\ self.unit_metric # None)
       \/ (self.unit_imperial # None /\ self.unit_metric = None)
    THEN Raise("ValueError")
    ELSE IF self.value_map # None
    THEN Return([self EXCEPT
            !.device_class = S("SensorDeviceClass.ENUM"),
            !.options = [i \in DOMAIN self.value_map.members |->
                            Lower(self.value_map.members[i].name)]])
    ELSE Return(self)

\* The arguments of the descriptors of SENSOR_TYPES, in order.
SENSOR_ARGS == <<
    \* sensor.py line 112
    [Defaults EXCEPT !.key = "feels_like",
                     !.attribute = "TMRW_ATTR_FEELS_LIKE",
                     !.name = "Feels Like",
                     !.native_unit_of_measurement = S("UnitOfTemperature.CELSIUS"),
                     !.device_class = S("SensorDeviceClass.TEMPERATURE")],
    \* sensor.py line 119
    [Defaults EXCEPT !.key = "dew_point",
                     !.attribute = "TMRW_ATTR_DEW_POINT",
                     !.name = "Dew Point",
                     !.native_unit_of_measurement = S("UnitOfTemperature.CELSIUS"),
                     !.device_class = S("SensorDeviceClass.TEMPERATURE")],
    \* sensor.py line 128
    [Defaults EXCEPT !.key = "pressure_surface_level",
                     !.attribute = "TMRW_ATTR_PRESSURE_SURFACE_LEVEL",
                     !.name = "Pressure (Surface Level)",
                     !.native_unit_of_measurement = S("UnitOfPressure.HPA"),
                     !.device_class = S("SensorDeviceClass.PRESSURE")],
    \* sensor.py line 137
    [Defaults EXCEPT !.key = "global_horizontal_irradiance",
                     !.attribute = "TMRW_ATTR_SOLAR_GHI",
                     !.name = "Global Horizontal Irradiance",
                     !.unit_imperial = S("UnitOfIrradiance.BTUS_PER_HOUR_SQUARE_FOOT"),
                     !.unit_metric = S("UnitOfIrradiance.WATTS_PER_SQUARE_METER"),
                     !.imperial_conversion = Float(100000, 315459),
                     !.device_class = S("SensorDeviceClass.IRRADIANCE")],
    \* sensor.py line 147
    [Defaults EXCEPT !.key = "cloud_base",
                     !.attribute = "TMRW_ATTR_CLOUD_BASE",
                     !.name = "Cloud Base",
                     !.unit_imperial = S("UnitOfLength.MILES"),
                     !.unit_metric = S("UnitOfLength.KILOMETERS"),
                     !.imperial_conversion = KmToMiles],
    \* sensor.py line 161
    [Defaults EXCEPT !.key = "cloud_ceiling",
                     !.attribute = "TMRW_ATTR_CLOUD_CEILING",
                     !.name = "Cloud Ceiling",
                     !.unit_imperial = S("UnitOfLength.MILES"),
                     !.unit_metric = S("UnitOfLength.KILOMETERS"),
                     !.imperial_conversion = KmToMiles],
    \* sensor.py line 174
    [Defaults EXCEPT !.key = "cloud_cover",
                     !.attribute = "TMRW_ATTR_CLOUD_COVER",
                     !.name = "Cloud Cover",
                     !.native_unit_of_measurement = S("PERCENTAGE")],
    \* sensor.py line 182
    [Defaults EXCEPT !.key = "wind_gust",
                     !.attribute = "TMRW_ATTR_WIND_GUST",
                     !.name = "Wind Gust",
                     !.unit_imperial = S("UnitOfSpeed.MILES_PER_HOUR"),
                     !.unit_metric = S("UnitOfSpeed.METERS_PER_SECOND"),
                     !.imperial_conversion = MsToMph],
    \* sensor.py line 193
    [Defaults EXCEPT !.key = "precipitation_type",
                     !.attribute = "TMRW_ATTR_PRECIPITATION_TYPE",
                     !.name = "Precipitation Type",
                     !.value_map = PrecipitationType],
    \* sensor.py line 203
    [Defaults EXCEPT !.key = "ozone",
                     !.attribute = "TMRW_ATTR_OZONE",
                     !.name = "Ozone",
                     !.native_unit_of_measurement = S("CONCENTRATION_MICROGRAMS_PER_CUBIC_METER"),
                     !.multiplication_factor = convert_ppb_to_ugm3(4800),
                     !.device_class = S("SensorDeviceClass.OZONE")],
    \* sensor.py line 211
    [Defaults EXCEPT !.key = "particulate_matter_2_5_mm",
                     !.attribute = "TMRW_ATTR_PARTICULATE_MATTER_25",
                     !.name = "Particulate Matter < 2.5 um",
                     !.native_unit_of_measurement = S("CONCENTRATION_MICROGRAMS_PER_CUBIC_METER"),
                     !.device_class = S("SensorDeviceClass.PM25")],
    \* sensor.py line 218
    [Defaults EXCEPT !.key = "particulate_matter_10_mm",
                     !.attribute = "TMRW_ATTR_PARTICULATE_MATTER_10",
                     !.name = "Particulate Matter < 10 um",
                     !.native_unit_of_measurement = S("CONCENTRATION_MICROGRAMS_PER_CUBIC_METER"),
                     !.device_class = S("SensorDeviceClass.PM10")],
    \* sensor.py line 227
    [Defaults EXCEPT !.key = "nitrogen_dioxide",
                     !.attribute = "TMRW_ATTR_NITROGEN_DIOXIDE",
                     !.name = "Nitrogen Dioxide",
                     !.native_unit_of_measurement = S("CONCENTRATION_MICROGRAMS_PER_CUBIC_METER"),
                     !.multiplication_factor = convert_ppb_to_ugm3(4601),
                     !.device_class = S("SensorDeviceClass.NITROGEN_DIOXIDE")],
    \* sensor.py line 236
    [Defaults EXCEPT !.key = "carbon_monoxide",
                     !.attribute = "TMRW_ATTR_CARBON_MONOXIDE",
                     !.name = "Carbon Monoxide",
                     !.native_unit_of_measurement = S("CONCENTRATION_PARTS_PER_MILLION"),
                     !.multiplication_factor = Float(1, 1000),
                     !.device_class = S("SensorDeviceClass.CO")],
    \* sensor.py line 246
    [Defaults EXCEPT !.key = "sulphur_dioxide",
                     !.attribute = "TMRW_ATTR_SULPHUR_DIOXIDE",
                     !.name = "Sulphur Dioxide",
                     !.native_unit_of_measurement = S("CONCENTRATION_MICROGRAMS_PER_CUBIC_METER"),
                     !.multiplication_factor = convert_ppb_to_ugm3(6407),
                     !.device_class = S("SensorDeviceClass.SULPHUR_DIOXIDE")],
    \* sensor.py line 254
    [Defaults EXCEPT !.key = "us_epa_air_quality_index",
                     !.attribute = "TMRW_ATTR_EPA_AQI",
                     !.name = "US EPA Air Quality Index",
                     !.device_class = S("SensorDeviceClass.AQI")],
    \* sensor.py line 260
    [Defaults EXCEPT !.key = "us_epa_primary_pollutant",
                     !.attribute = "TMRW_ATTR_EPA_PRIMARY_POLLUTANT",
                     !.name = "US EPA Primary Pollutant",
                     !.value_map = PrimaryPollutantType],
    \* sensor.py line 267
    [Defaults EXCEPT !.key = "us_epa_health_concern",
                     !.attribute = "TMRW_ATTR_EPA_HEALTH_CONCERN",
                     !.name = "US EPA Health Concern",
                     !.value_map = HealthConcernType],
    \* sensor.py line 275
    [Defaults EXCEPT !.key = "china_mep_air_quality_index",
                     !.attribute = "TMRW_ATTR_CHINA_AQI",
                     !.name = "China MEP Air Quality Index",
                     !.device_class = S("SensorDeviceClass.AQI")],
    \* sensor.py line 281
    [Defaults EXCEPT !.key = "china_mep_primary_pollutant",
                     !.attribute = "TMRW_ATTR_CHINA_PRIMARY_POLLUTANT",
                     !.name = "China MEP Primary Pollutant",
                     !.value_map = PrimaryPollutantType],
    \* sensor.py line 288
    [Defaults EXCEPT !.key = "china_mep_health_concern",
                     !.attribute = "TMRW_ATTR_CHINA_HEALTH_CONCERN",
                     !.name = "China MEP Health Concern",
                     !.value_map = HealthConcernType],
    \* sensor.py line 296
    [Defaults EXCEPT !.key = "tree_pollen_index",
                     !.attribute = "TMRW_ATTR_POLLEN_TREE",
                     !.name = "Tree Pollen Index",
                     !.value_map = PollenIndex],
    \* sensor.py line 304
    [Defaults EXCEPT !.key = "weed_pollen_index",
                     !.attribute = "TMRW_ATTR_POLLEN_WEED",
                     !.name = "Weed Pollen Index",
                     !.value_map = PollenIndex],
    \* sensor.py line 312
    [Defaults EXCEPT !.key = "grass_pollen_index",
                     !.attribute = "TMRW_ATTR_POLLEN_GRASS",
                     !.name = "Grass Pollen Index",
                     !.value_map = PollenIndex],
    \* sensor.py line 320
    [Defaults EXCEPT !.key = "fire_index",
                     !.attribute = "TMRW_ATTR_FIRE_INDEX",
                     !.name = "Fire Index"],
    \* sensor.py line 326
    [Defaults EXCEPT !.key = "uv_index",
                     !.attribute = "TMRW_ATTR_UV_INDEX",
                     !.name = "UV Index"],
    \* sensor.py line 333
    [Defaults EXCEPT !.key = "uv_radiation_health_concern",
                     !.attribute = "TMRW_ATTR_UV_HEALTH_CONCERN",
                     !.name = "UV Radiation Health Concern",
                     !.value_map = UVDescription]
>>

\* SENSOR_TYPES: the descriptors, each constructed from its arguments.
SENSOR_TYPES == [i \in DOMAIN SENSOR_ARGS |-> post_init(SENSOR_ARGS[i]).value]

\* Variant of BaseEntityInit that ignores the unit system.
BaseEntityInit_metric(desc, hass_units, conf_name, unique_id) ==
    [entity_description |-> desc,
     _attr_name |-> <<conf_name, " - ", desc.name>>,
     _attr_unique_id |-> <<unique_id, "_", desc.key>>,
     native_unit_of_measurement |->
        IF desc.native_unit_of_measurement = None
        THEN desc.unit_metric
        ELSE desc.native_unit_of_measurement]

\* BaseTomorrowioSensorEntity.__init__: name, unique id, and the unit, which
\* is the descriptor's fixed unit or else the metric or imperial one.
BaseEntityInit(desc, hass_units, conf_name, unique_id) ==
    [entity_description |-> desc,
     _attr_name |-> <<conf_name, " - ", desc.name>>,
     _attr_unique_id |-> <<unique_id, "_", desc.key>>,
     native_unit_of_measurement |->
        IF desc.native_unit_of_measurement = None
        THEN IF hass_units = US_CUSTOMARY_SYSTEM
             THEN desc.unit_imperial
             ELSE desc.unit_metric
        ELSE desc.native_unit_of_measurement]

\* The decoded label of an enum descriptor, or ValueError for a raw value
\* that is no member's value.
EnumLabel(desc, st) ==
    IF EnumMembers(desc.value_map, st) = {}
    THEN Raise("ValueError")
    ELSE LET i == CHOOSE j \in EnumMembers(desc.value_map, st) : TRUE
         IN Return([tag |-> "str", chars |-> Lower(desc.value_map.members[i].name)])

\* The test of lines 414-419.
ImperialNeeded(desc, hass_units) ==
    /\ Truthy(desc.imperial_conversion)
    /\ desc.unit_imperial # None
    /\ desc.unit_imperial # desc.unit_metric
    /\ hass_units = US_CUSTOMARY_SYSTEM

\* Variant of native_value that decodes the enum after the numeric steps.
native_value_enum_last(desc, st, hass_units) ==
    IF st = None THEN Return(st)
    ELSE IF desc.multiplication_factor # None
    THEN Return(handle_conversion(st, desc.multiplication_factor))
    ELSE IF ImperialNeeded(desc, hass_units)
    THEN Return(handle_conversion(st, desc.imperial_conversion))
    ELSE IF desc.value_map # None THEN EnumLabel(desc, st)
    ELSE Return(st)

\* Variant of native_value that applies the imperial conversion whatever the
\* unit system is.
native_value_any_units(desc, st, hass_units) ==
    IF st = None THEN Return(st)
    ELSE IF desc.value_map # None THEN EnumLabel(desc, st)
    ELSE LET converted == IF desc.multiplication_factor # None
                          THEN handle_conversion(st, desc.multiplication_factor)
                          ELSE st
         IN IF ImperialNeeded(desc, US_CUSTOMARY_SYSTEM)
            THEN Return(handle_conversion(converted, desc.imperial_conversion))
            ELSE Return(converted)

\* Variant of native_value whose numeric steps exclude each other.
native_value_exclusive(desc, st, hass_units) ==
    IF st = None THEN Return(st)
    ELSE IF desc.value_map # None THEN EnumLabel(desc, st)
    ELSE IF desc.multiplication_factor # None
    THEN Return(handle_conversion(st, desc.multiplication_factor))
    ELSE IF ImperialNeeded(desc, hass_units)
    THEN Return(handle_conversion(st, desc.imperial_conversion))
    ELSE Return(st)

\* Variant of native_value that tests for a missing value after the enum
\* decoder and the multiplication factor.
native_value_late_none(desc, st, hass_units) ==
    IF desc.value_map # None THEN EnumLabel(desc, st)
    ELSE IF desc.multiplication_factor # None /\ st = None THEN Raise("TypeError")
    ELSE IF st = None THEN Return(st)
    ELSE LET converted == IF desc.multiplication_factor # None
                          THEN handle_conversion(st, desc.multiplication_factor)
                          ELSE st
         IN IF ImperialNeeded(desc, hass_units)
            THEN Return(handle_conversion(converted, desc.imperial_conversion))
            ELSE Return(converted)

\* BaseTomorrowioSensorEntity.native_value, given the raw state: a missing
\* value is returned as it is; an enum decoder gives the member's lower-cased
\* name; otherwise the multiplication factor is applied if there is one, and
\* then the imperial conversion if it is needed.
native_value(desc, st, hass_units) ==
    IF st = None THEN Return(st)
    ELSE IF desc.value_map # None THEN EnumLabel(desc, st)
    ELSE LET converted == IF desc.multiplication_factor # None
                          THEN handle_conversion(st, desc.multiplication_factor)
                          ELSE st
         IN IF ImperialNeeded(desc, hass_units)
            THEN Return(handle_conversion(converted, desc.imperial_conversion))
            ELSE Return(converted)

\* Snapshot lookup of the entity base class: the value stored under the
\* attribute, None when the attribute is absent.
get_current_property(current, attr) ==
    IF attr \in DOMAIN current THEN current[attr] ELSE None

\* TomorrowioSensorEntity._state: the entity's attribute in the current
\* conditions; a str fails the assertion.
RawState(entity_, current) ==
    LET val == get_current_property(current, entity_.entity_description.attribute)
    IN IF val.tag = "str" THEN Raise("AssertionError") ELSE Return(val)

\* The property getter as a whole: _state, then native_value.
RenderEntity(entity_, current, hass_units) ==
    LET raw == RawState(entity_, current)
    IN IF raw.kind = "raise" THEN raw
       ELSE native_value(entity_.entity_description, raw.value, hass_units)

(***************************************************************************)
(* Inputs of the sensor specifications.                                    *)
(***************************************************************************)
\* Largest whole raw code a snapshot field takes; PrecipitationType ends at 4.
MaxCode == 5

\* Raw values a snapshot field can hold: nothing, whole codes, and readings
\* with and without a fraction.
RawNumbers ==
    { Num(1000 * i) : i \in 0..MaxCode }
        \cup { Num(12345), Num(100000), Num(0 - 2500) }
RawStates == {None} \cup RawNumbers

\* Argument sets a descriptor is constructed with.
DescArgs ==
    { [Defaults EXCEPT !.key = "probe", !.attribute = "probe", !.name = "Probe",
                       !.native_unit_of_measurement = nu,
                       !.unit_metric = um, !.unit_imperial = ui,
                       !.multiplication_factor = mf,
                       !.imperial_conversion = ic,
                       !.value_map = vm] :
        nu \in {None, S("CONCENTRATION_MICROGRAMS_PER_CUBIC_METER")},
        um \in {None, S("UnitOfLength.KILOMETERS"), S("UnitOfLength.MILES")},
        ui \in {None, S("UnitOfLength.MILES")},
        mf \in {None, convert_ppb_to_ugm3(4800), Float(1, 1000)},
        ic \in {None, KmToMiles, Float(100000, 315459), Float(0, 1)},
        vm \in {None, PrecipitationType} }

\* Attribute names of the table, and the current-conditions mappings the
\* coordinator can hold: none, all, or part of the attributes present.
Attributes == { SENSOR_ARGS[i].attribute : i \in DOMAIN SENSOR_ARGS }
EnumAttributes ==
    { SENSOR_ARGS[i].attribute : i \in { j \in DOMAIN SENSOR_ARGS :
                                           SENSOR_ARGS[j].value_map # None } }
TableValues ==
    { Num(1000 * MaxCode), Num(3000), Num(12345), Num(100000), S("n/a") }
Snapshots ==
    { [a \in A |-> v] :
        A \in {{}, Attributes, EnumAttributes, Attributes \ EnumAttributes},
        v \in TableValues }

(***************************************************************************)
(* Sensor operations: one descriptor.                                      *)
(***************************************************************************)

\* TomorrowioSensorEntityDescription(...): the dataclass initialiser, which
\* ends in __post_init__.
Construct ==
    /\ description = None
    /\ \E args \in DescArgs :
          description' = [args |-> args, outcome |-> post_init(args)]
    /\ UNCHANGED <<units, entity, state, rendered>>

\* An entity is created for the constructed descriptor.
NewEntity ==
    /\ description # None
    /\ description.outcome.kind = "return"
    /\ entity = None
    /\ entity' = BaseEntityInit(description.outcome.value, units, "Home", "uid")
    /\ UNCHANGED <<units, description, state, rendered>>

\* The host's unit system setting changes.
SetUnits ==
    /\ \E u \in UnitSystems : units' = u
    /\ units' # units
    /\ UNCHANGED <<description, entity, state, rendered>>

\* A poll changes the entity's field in the snapshot.
SetState ==
    /\ \E v \in RawStates : state' = v
    /\ state' # state
    /\ UNCHANGED <<units, description, entity, rendered>>

\* native_value is read: the call's raw state, the unit system it saw and
\* its outcome.
Render ==
    /\ entity # None
    /\ rendered' = [state |-> state, units |-> units,
                    result |-> native_value(entity.entity_description, state, units)]
    /\ UNCHANGED <<units, description, entity, state>>

(***************************************************************************)
(* Sensor operations: the entities of SENSOR_TYPES.                        *)
(***************************************************************************)

\* sensor.async_setup_entry: one entity per descriptor of SENSOR_TYPES.
sensor_async_setup_entry ==
    /\ entities = <<>>
    /\ entities' = [i \in DOMAIN SENSOR_TYPES |->
                       BaseEntityInit(SENSOR_TYPES[i], table_units, "Home", "uid")]
    /\ UNCHANGED <<table_units, snapshot, table_rendered>>

\* A poll replaces the current conditions.
CoordinatorUpdate ==
    /\ \E s \in Snapshots : snapshot' = s
    /\ snapshot' # snapshot
    /\ UNCHANGED <<table_units, entities, table_rendered>>

\* native_value of one table entity is read.
TableRender ==
    /\ \E i \in DOMAIN entities :
          table_rendered' =
              [idx |-> i,
               raw |-> RawState(entities[i], snapshot),
               result |-> RenderEntity(entities[i], snapshot, table_units)]
    /\ UNCHANGED <<table_units, entities, snapshot>>

(***************************************************************************)
(* Specifications.                                                         *)
(***************************************************************************)
PollInit ==
    /\ setup_pc = "init"
    /\ setup_result = "none"
    /\ hass_data = {}
    /\ platforms_setup = FALSE
    /\ data = None
    /\ last_update_success = TRUE
    /\ timer_armed = FALSE
    /\ update_pc = "idle"
    /\ future = Pending
    /\ in_flight = 0
    /\ update_result = None
    /\ ticks = 0

DescInit ==
    /\ units \in UnitSystems
    /\ description = None
    /\ entity = None
    /\ state = None
    /\ rendered = None

TableInit ==
    /\ table_units \in UnitSystems
    /\ entities = <<>>
    /\ snapshot = <<>>
    /\ table_rendered = None

\* The polling adapter.
Init ==
    /\ PollInit
    /\ units = "metric" /\ description = None /\ entity = None
    /\ state = None /\ rendered = None
    /\ table_units = "metric" /\ entities = <<>> /\ snapshot = <<>>
    /\ table_rendered = None

Next ==
    \/ SetupStart /\ UNCHANGED <<desc_vars, table_vars>>
    \/ ExecutorFinish /\ UNCHANGED <<desc_vars, table_vars>>
    \/ UpdateReturn /\ UNCHANGED <<desc_vars, table_vars>>
    \/ SetupStore /\ UNCHANGED <<desc_vars, table_vars>>
    \/ SetupPlatforms /\ UNCHANGED <<desc_vars, table_vars>>
    \/ SetupReturn /\ UNCHANGED <<desc_vars, table_vars>>
    \/ Tick /\ UNCHANGED <<desc_vars, table_vars>>
    \/ async_unload_entry /\ UNCHANGED <<desc_vars, table_vars>>

Spec == Init /\ [][Next]_vars

\* One descriptor: construction, entity creation and rendering.
InitDesc ==
    /\ PollInit
    /\ DescInit
    /\ table_units = "metric" /\ entities = <<>> /\ snapshot = <<>>
    /\ table_rendered = None

NextDesc ==
    \/ Construct /\ UNCHANGED <<poll_vars, table_vars>>
    \/ NewEntity /\ UNCHANGED <<poll_vars, table_vars>>
    \/ SetUnits /\ UNCHANGED <<poll_vars, table_vars>>
    \/ SetState /\ UNCHANGED <<poll_vars, table_vars>>
    \/ Render /\ UNCHANGED <<poll_vars, table_vars>>

SpecDesc == InitDesc /\ [][NextDesc]_vars

\* The entities of SENSOR_TYPES under a fixed unit system.
InitTable ==
    /\ PollInit
    /\ TableInit
    /\ units = "metric" /\ description = None /\ entity = None
    /\ state = None /\ rendered = None

NextTable ==
    \/ sensor_async_setup_entry /\ UNCHANGED <<poll_vars, desc_vars>>
    \/ CoordinatorUpdate /\ UNCHANGED <<poll_vars, desc_vars>>
    \/ TableRender /\ UNCHANGED <<poll_vars, desc_vars>>

SpecTable == InitTable /\ [][NextTable]_vars

(***************************************************************************)
(*                              PROPERTIES                                 *)
(***************************************************************************)

ProviderError == [kind |-> "raise", exc |-> "MeteoclimaticError"]

\* C1: in a poll cycle after a successful one, when the provider fetch raises
\* MeteoclimaticError the update function raises UpdateFailed with that error
\* as its cause instead of returning a record, the snapshot keeps its value,
\* the last update is marked failed, and the cycle ends normally: setup
\* stays where it is and the timer is armed again while entities listen.
\* The snapshot changes only when a fetch returned, to that record's mapping.
C1_FailedPollKeepsSnapshot ==
    [][ /\ ( /\ update_pc = "awaiting" /\ update_pc' = "idle"
             /\ future = ProviderError
             /\ data # None )
           => /\ update_result' = [kind |-> "raise", exc |-> "UpdateFailed",
                                   cause |-> "MeteoclimaticError"]
              /\ data' = data
              /\ last_update_success' = FALSE
              /\ timer_armed' = platforms_setup
              /\ setup_pc' = setup_pc /\ setup_result' = setup_result
        /\ (data' # data)
           => /\ future.kind = "return"
              /\ data' = [tag |-> "dict", items |-> future.value.attrs]
      ]_vars

\* A tick is running after a failed poll, the earlier snapshot still there.
C1_Witness ==
    /\ data # None
    /\ last_update_success = FALSE
    /\ update_result = [kind |-> "raise", exc |-> "UpdateFailed",
                        cause |-> "MeteoclimaticError"]
    /\ update_pc = "awaiting"
    /\ ticks >= 2

\* C2: setup does not complete before the first fetch has finished.  While
\* the first fetch is pending nothing is stored, no platform is set up and
\* nothing is returned; if it failed, setup is aborted and stays so; the
\* coordinator is stored only after a successful first fetch, the platforms
\* are set up only after the coordinator is stored, and True is returned
\* only after both.
C2_FirstFetchBlocksSetup ==
    /\ setup_pc \in {"init", "first_refresh"}
          => /\ hass_data = {} /\ ~platforms_setup /\ setup_result = "none"
    /\ setup_pc = "aborted"
          => /\ entry_id \notin hass_data
             /\ ~platforms_setup
             /\ setup_result = "ConfigEntryNotReady"
             /\ data = None
    /\ entry_id \in hass_data => data # None
    /\ platforms_setup => entry_id \in hass_data
    /\ setup_pc = "return" => entry_id \in hass_data
    /\ setup_result = "True" => /\ entry_id \in hass_data /\ data # None
                                /\ setup_pc = "done"

\* The first fetch failed and setup was aborted.
C2_Witness ==
    /\ setup_pc = "aborted"
    /\ update_result = [kind |-> "raise", exc |-> "UpdateFailed",
                        cause |-> "MeteoclimaticError"]

\* C3: at most one fetch of the coordinator is in flight, and the timer is
\* armed only while no refresh cycle is running.
C3_OneFetchInFlight ==
    /\ in_flight <= 1
    /\ timer_armed => (update_pc = "idle" /\ in_flight = 0)
    /\ update_pc = "idle" => in_flight = 0

\* The fetch of a second timer cycle is in flight.
C3_Witness == in_flight = 1 /\ ticks >= 2 /\ update_pc = "awaiting"

\* The descriptor of the entity, where there is one.
EntityDesc == entity.entity_description

\* C4: constructing a descriptor with exactly one of unit_metric and
\* unit_imperial set raises ValueError; with both set or both unset it
\* succeeds; so a descriptor that exists has both or neither.
C4_UnitPairValidated ==
    /\ description # None =>
          LET a == description.args
              exactly_one == (a.unit_metric = None) # (a.unit_imperial = None)
          IN /\ exactly_one => description.outcome = Raise("ValueError")
             /\ ~exactly_one => description.outcome.kind = "return"
             /\ description.outcome.kind = "return" =>
                   ((description.outcome.value.unit_metric = None)
                        <=> (description.outcome.value.unit_imperial = None))
    /\ entity # None =>
          ((EntityDesc.unit_metric = None) <=> (EntityDesc.unit_imperial = None))

\* A construction with only the imperial unit given was rejected.
C4_Witness ==
    /\ description # None
    /\ description.args.unit_metric = None
    /\ description.args.unit_imperial # None
    /\ description.outcome = Raise("ValueError")

\* The lower-cased names of PrecipitationType, by member value.
PrecipitationLabels ==
    << <<110, 111, 110, 101>>,                                \* none
       <<114, 97, 105, 110>>,                                 \* rain
       <<115, 110, 111, 119>>,                                \* snow
       <<102, 114, 101, 101, 122, 105, 110, 103, 95, 114, 97, 105, 110>>,
                                                              \* freezing_rain
       <<105, 99, 101, 95, 112, 101, 108, 108, 101, 116, 115>> >>
                                                              \* ice_pellets

\* C5: for a descriptor with an enum decoder and a present raw value that is
\* a member's value, native_value returns that member's lower-cased name,
\* whatever the multiplication factor, the imperial conversion, the units and
\* the unit system are; it never returns a number (a raw value that is no
\* member's value raises ValueError).
C5_EnumLabelWins ==
    (rendered # None /\ rendered.state # None /\ EntityDesc.value_map # None) =>
        LET code == rendered.state.milli
        IN /\ (code % 1000 = 0 /\ code \div 1000 \in 0..4) =>
                 rendered.result =
                    Return([tag |-> "str",
                            chars |-> PrecipitationLabels[code \div 1000 + 1]])
           /\ ~(code % 1000 = 0 /\ code \div 1000 \in 0..4) =>
                 rendered.result = Raise("ValueError")
           /\ rendered.result.kind = "return" => rendered.result.value.tag = "str"

\* An enum descriptor that also has a multiplication factor, an imperial
\* conversion and differing units rendered FREEZING_RAIN under imperial.
C5_Witness ==
    /\ rendered # None
    /\ EntityDesc.value_map # None
    /\ EntityDesc.multiplication_factor # None
    /\ EntityDesc.imperial_conversion = KmToMiles
    /\ EntityDesc.unit_imperial # EntityDesc.unit_metric
    /\ rendered.units = US_CUSTOMARY_SYSTEM
    /\ rendered.state = Num(3000)
    /\ rendered.result = Return([tag |-> "str", chars |-> PrecipitationLabels[4]])

\* C6: for a descriptor whose only conversion setting is a multiplication
\* factor, native_value(raw) is raw times the factor (or the function applied
\* to raw) rounded to two decimals, under both unit systems; ozone (molecular
\* weight 48) renders 100 as 196.32, and the factor 1/1000 renders 12.345 as
\* 0.01.
C6_FactorRounded ==
    (/\ rendered # None /\ rendered.state # None
     /\ EntityDesc.value_map = None
     /\ EntityDesc.multiplication_factor # None
     /\ EntityDesc.imperial_conversion = None) =>
        LET mf == EntityDesc.multiplication_factor
        IN /\ rendered.result = Return(Round2(rendered.state.milli, mf.num, mf.den))
           /\ (mf = convert_ppb_to_ugm3(4800) /\ rendered.state = Num(100000)) =>
                 rendered.result = Return(Num(196320))
           /\ (mf = Float(1, 1000) /\ rendered.state = Num(12345)) =>
                 rendered.result = Return(Num(10))

\* The ozone factor rendered 100 as 196.32 under the imperial unit system.
C6_Witness ==
    /\ rendered # None
    /\ EntityDesc.value_map = None
    /\ EntityDesc.multiplication_factor = convert_ppb_to_ugm3(4800)
    /\ EntityDesc.imperial_conversion = None
    /\ rendered.units = US_CUSTOMARY_SYSTEM
    /\ rendered.state = Num(100000)
    /\ rendered.result = Return(Num(196320))

\* An imperial conversion in the sense of C7 and C9: a function or a non-zero
\* factor (a factor of zero converts nothing and tests false at line 415).
IsConversion(c) == c # None /\ (c.tag = "callable" \/ c.num # 0)

\* The value before the imperial step: the raw value, with the
\* multiplication factor applied when there is one.
BeforeImperial(desc, st) ==
    IF desc.multiplication_factor = None THEN st
    ELSE Round2(st.milli, desc.multiplication_factor.num,
                desc.multiplication_factor.den)

\* C7: for a descriptor without enum decoder that has differing metric and
\* imperial units and an imperial conversion: under the imperial unit system
\* at render time native_value is the imperial conversion of the value rounded
\* to two decimals (100 km render as 62.14 mi), under the metric one the value
\* is returned unconverted.
C7_ImperialOnlyWhenImperial ==
    (/\ rendered # None /\ rendered.state # None
     /\ EntityDesc.value_map = None
     /\ EntityDesc.unit_imperial # None
     /\ EntityDesc.unit_imperial # EntityDesc.unit_metric
     /\ IsConversion(EntityDesc.imperial_conversion)) =>
        LET ic == EntityDesc.imperial_conversion
            val == BeforeImperial(EntityDesc, rendered.state)
        IN /\ rendered.units = US_CUSTOMARY_SYSTEM =>
                 rendered.result = Return(Round2(val.milli, ic.num, ic.den))
           /\ rendered.units = "metric" => rendered.result = Return(val)
           /\ ( /\ ic = KmToMiles /\ rendered.state = Num(100000)
                /\ EntityDesc.multiplication_factor = None ) =>
                 rendered.result =
                    IF rendered.units = US_CUSTOMARY_SYSTEM
                    THEN Return(Num(62140)) ELSE Return(Num(100000))

\* 100 km were rendered as 62.14 mi under the imperial unit system.
C7_Witness ==
    /\ rendered # None
    /\ EntityDesc.value_map = None
    /\ EntityDesc.multiplication_factor = None
    /\ EntityDesc.imperial_conversion = KmToMiles
    /\ EntityDesc.unit_imperial # EntityDesc.unit_metric
    /\ rendered.units = US_CUSTOMARY_SYSTEM
    /\ rendered.state = Num(100000)
    /\ rendered.result = Return(Num(62140))

\* C9 as stated: with a multiplication factor configured and no enum decoder,
\* native_value(raw) is round(raw * factor, 2), the imperial conversion not
\* being applied on top of it.
C9_StepsExclusive ==
    (/\ rendered # None /\ rendered.state # None
     /\ EntityDesc.value_map = None
     /\ EntityDesc.multiplication_factor # None) =>
        rendered.result =
            Return(Round2(rendered.state.milli,
                          EntityDesc.multiplication_factor.num,
                          EntityDesc.multiplication_factor.den))

\* C9, amended: the numeric steps are applied one after the other.  With a
\* multiplication factor configured and no enum decoder, native_value(raw) is
\* round(raw * factor, 2) unless an imperial conversion is configured, the
\* imperial unit is set and differs from the metric one and the unit system
\* is imperial; then the imperial conversion is applied to that rounded value
\* and the result is rounded again.
C9_StepsChained ==
    (/\ rendered # None /\ rendered.state # None
     /\ EntityDesc.value_map = None
     /\ EntityDesc.multiplication_factor # None) =>
        LET mf == EntityDesc.multiplication_factor
            ic == EntityDesc.imperial_conversion
            first == Round2(rendered.state.milli, mf.num, mf.den)
        IN IF /\ IsConversion(ic)
              /\ EntityDesc.unit_imperial # None
              /\ EntityDesc.unit_imperial # EntityDesc.unit_metric
              /\ rendered.units = US_CUSTOMARY_SYSTEM
           THEN rendered.result = Return(Round2(first.milli, ic.num, ic.den))
           ELSE rendered.result = Return(first)

\* 100 was rendered through the ozone factor (196.32) and then through the
\* km-to-miles conversion (121.99) under the imperial unit system.
C9_Witness ==
    /\ rendered # None
    /\ EntityDesc.value_map = None
    /\ EntityDesc.multiplication_factor = convert_ppb_to_ugm3(4800)
    /\ EntityDesc.imperial_conversion = KmToMiles
    /\ EntityDesc.unit_imperial # EntityDesc.unit_metric
    /\ rendered.units = US_CUSTOMARY_SYSTEM
    /\ rendered.state = Num(100000)
    /\ rendered.result = Return(Num(121990))

\* C8: for every descriptor of SENSOR_TYPES and under both unit systems, an
\* entity whose field is absent from the current snapshot renders None and
\* raises nothing.
C8_AbsentFieldUnknown ==
    [][ table_rendered' # table_rendered =>
          LET r == table_rendered'
              d == entities[r.idx].entity_description
          IN d.attribute \notin DOMAIN snapshot => r.result = Return(None)
      ]_vars

\* Under the imperial unit system, an entity with an imperial conversion
\* rendered None from a snapshot without its field.
C8_Witness ==
    /\ table_rendered # None
    /\ table_units = US_CUSTOMARY_SYSTEM
    /\ LET d == entities[table_rendered.idx].entity_description
       IN /\ d.attribute \notin DOMAIN snapshot
          /\ d.imperial_conversion # None
    /\ table_rendered.result = Return(None)

\* C10: for every descriptor of SENSOR_TYPES, under one unit system from
\* entity construction to rendering, native_value applies the imperial
\* conversion exactly when the entity's unit is the descriptor's imperial
\* unit and that unit differs from the metric one; an entity with the fixed
\* or the metric unit gets the value without imperial conversion, and an
\* enum entity a label.
C10_UnitMatchesConversion ==
    (/\ table_rendered # None
     /\ table_rendered.raw.kind = "return"
     /\ table_rendered.raw.value # None) =>
        LET r == table_rendered
            e == entities[r.idx]
            d == e.entity_description
            imperial == /\ e.native_unit_of_measurement = d.unit_imperial
                        /\ d.unit_imperial # d.unit_metric
            val == BeforeImperial(d, r.raw.value)
        IN IF d.value_map # None
           THEN /\ ~imperial
                /\ r.result.kind = "return" => r.result.value.tag = "str"
           ELSE IF imperial
           THEN /\ d.imperial_conversion # None
                /\ r.result = Return(Round2(val.milli, d.imperial_conversion.num,
                                            d.imperial_conversion.den))
                /\ r.result # Return(val)
           ELSE r.result = Return(val)

\* The wind gust entity, whose unit is miles per hour, rendered 100 m/s as
\* 223.69 mph.
C10_Witness ==
    /\ table_rendered # None
    /\ table_units = US_CUSTOMARY_SYSTEM
    /\ LET e == entities[table_rendered.idx]
       IN /\ e.entity_description.key = "wind_gust"
          /\ e.native_unit_of_measurement = S("UnitOfSpeed.MILES_PER_HOUR")
    /\ table_rendered.raw = Return(Num(100000))
    /\ table_rendered.result = Return(Num(223690))

====
